---- MODULE Spec2Model ----
(***************************************************************************)
(* Training and evaluation orchestration of the hand-sign recognition      *)
(* scripts: the epoch loop with early stopping and best-checkpoint         *)
(* tracking (04_train_mlp.py, 05_train_temporal.py), the stratified        *)
(* train/val/test split (03_create_splits.py) and the padding collate      *)
(* function of the sequence data loader (05_train_temporal.py).            *)
(***************************************************************************)
EXTENDS Integers, Sequences, FiniteSets, TLC

(***************************************************************************)
(* Bounds of the model.                                                    *)
(***************************************************************************)
\* largest `epochs` argument passed to train / train_model
MaxEpochs == 3
\* largest `patience` argument passed to train / train_model
MaxPatience == 2
\* len(train_dataset), len(val_dataset) and the batch_size argument
TrainSize == 3
ValSize == 3
BatchSize == 2
\* largest number of sample files in one class directory
MaxPerClass == 8
\* random_state arguments 0..MaxSeed besides the default one
MaxSeed == 0
\* len(test_dataset)
TestSize == 2
\* number of create_splits calls on one data directory
MaxCalls == 2
\* longest landmark sequence (frames) of a sample of the sequence dataset
MaxSeqLen == 2

VARIABLES
    \* ---- Trainer / MultiModelTrainer --------------------------------
    trainer,        \* which class was constructed: "Trainer" | "MultiModelTrainer"
    pc,             \* position of the control flow of train / train_model
    run,            \* 0 before train / train_model is called, 1 from then on
    model_name,     \* argument of train_model ("mlp" for Trainer.train)
    epochs,         \* argument `epochs`
    patience,       \* argument `patience`
    epoch,          \* loop variable of `for epoch in range(epochs)`
    batch_i,        \* index of the next batch of the loader being iterated
    train_loss, train_correct, train_total,
    val_loss, val_correct, val_total,
    history,        \* dict of the four per-epoch lists
    best_val_acc,
    epochs_without_improvement,
    scheduler,      \* state of ReduceLROnPlateau
    model_steps,    \* number of optimizer.step() calls applied to the model
    early_stopped,  \* the `break` of the early-stopping branch was taken
    files,          \* output_dir: file name -> <<>> (absent) or <<content>>
    returned,       \* <<>> while running, <<best_val_acc>> once train returned
    net,            \* what the forward passes of the model can yield (below)
    batch_log,      \* record of the batches of the current epoch: per pass,
                    \* the size, loss and correct count of each batch
    \* ---- evaluate / evaluate_model / run_all --------------------------
    test_labels,    \* labels of test_dataset, in order
    evaluation,     \* <<>>, then <<outcome of the last evaluate call>>
    harness,        \* run_all: "idle" | "running" | "raised" | "done"
    results,        \* the `results` dict of run_all, in insertion order
    \* ---- DatasetCleaner ----------------------------------------------
    sample_counts,  \* class directory -> number of loadable sample files
    np_random,      \* state of numpy's global random generator
    calls,          \* the create_splits calls made: arguments and outcome
    split_files,    \* processed/splits: file name -> <<>> or <<content>>
    \* ---- sequence DataLoader ------------------------------------------
    batch,          \* the dataset items handed to collate_sequences
    collated,       \* <<>> before the call, then <<its return value>>
    forward         \* <<>>, then <<the calls the loop body made on the batch>>

trainVars == <<trainer, pc, run, model_name, epochs, patience, epoch, batch_i,
               train_loss, train_correct, train_total,
               val_loss, val_correct, val_total, history, best_val_acc,
               epochs_without_improvement, scheduler, model_steps,
               early_stopped, files, returned, net, batch_log>>

splitVars == <<sample_counts, np_random, calls, split_files>>

collateVars == <<batch, collated, forward>>

harnessVars == <<test_labels, evaluation, harness, results>>

vars == <<trainVars, splitVars, collateVars, harnessVars>>

(***************************************************************************)
(* Numbers.  The scripts compute accuracies and losses as Python floats    *)
(* (100. * correct / total, loss_sum / total).  They are kept here as      *)
(* exact fractions <<numerator, denominator>>; the integer 0 the scripts   *)
(* start best_val_acc with is the fraction <<0, 1>>, and -inf (the         *)
(* scheduler's initial best in mode 'max') is <<-1, 0>>.                   *)
(***************************************************************************)
Frac(n, d) == <<n, d>>
Zero == Frac(0, 1)
NegInf == Frac(-1, 0)

\* a > b on fractions with non-negative denominators
Gt(a, b) == a[1] * b[2] > b[1] * a[2]
\* a == b as numbers
Eq(a, b) == a[1] * b[2] = b[1] * a[2]

\* 100. * correct / total
Percent(correct, total) == Frac(100 * correct, total)

(***************************************************************************)
(* DataLoader(dataset, batch_size): ceil(n / batch_size) batches, the last *)
(* one possibly smaller.                                                   *)
(***************************************************************************)
NumBatches(n, bs) == (n + bs - 1) \div bs

BatchLen(n, bs, i) == IF (i + 1) * bs <= n THEN bs ELSE n - i * bs

(***************************************************************************)
(* The model and the criterion are opaque: a forward pass over a batch of  *)
(* `size` samples yields a loss value and a number of correct predictions. *)
(* `net` says which: the values loss.item() takes, and per pass whether    *)
(* the predictions of a batch are all correct ("all"), all correct or all  *)
(* wrong ("all_or_none"), or anything ("any").  No branch of the loop      *)
(* reads the loss or the training accuracy, so the epoch loop is explored  *)
(* with FixedNet: the loss is the single token 1 and a training batch      *)
(* counts every sample correct, while the validation predictions, which    *)
(* drive checkpointing and early stopping, range over every count.         *)
(***************************************************************************)
FixedNet == [loss |-> {1}, train_correct |-> "all", val_correct |-> "any",
             test_correct |-> "any"]
\* losses differ from batch to batch, any prediction in both passes
FreeNet == [loss |-> {1, 2}, train_correct |-> "any", val_correct |-> "any",
            test_correct |-> "any"]
\* as FixedNet, the validation batches all right or all wrong
CoarseNet == [loss |-> {1}, train_correct |-> "all",
              val_correct |-> "all_or_none", test_correct |-> "any"]
\* as CoarseNet, the test predictions all right or all wrong too
CoarsestNet == [loss |-> {1}, train_correct |-> "all",
                val_correct |-> "all_or_none", test_correct |-> "all_or_none"]

Nets == {FixedNet, FreeNet, CoarseNet, CoarsestNet}

CorrectCounts(mode, size) ==
    IF mode = "all" THEN {size}
    ELSE IF mode = "all_or_none" THEN {0, size}
    ELSE 0..size

TrainOutcomes(size) ==
    {[loss |-> l, correct |-> c] :
        l \in net.loss, c \in CorrectCounts(net.train_correct, size)}

ValOutcomes(size) ==
    {[loss |-> l, correct |-> c] :
        l \in net.loss, c \in CorrectCounts(net.val_correct, size)}

NoBatches == [train |-> <<>>, val |-> <<>>]

(***************************************************************************)
(* optim.lr_scheduler.ReduceLROnPlateau(optimizer, mode='max', factor=0.5, *)
(* patience=5), the other arguments at their defaults (relative threshold  *)
(* 1e-4, no cooldown, min_lr 0).  The learning rate is lr * 0.5^lr_halvings.*)
(***************************************************************************)
LrPatience == 5

SchedulerInit == [best |-> NegInf, num_bad_epochs |-> 0, lr_halvings |-> 0]

\* is_better in mode 'max' with a relative threshold: a > best * (1 + 1e-4)
IsBetter(a, best) == a[1] * best[2] * 10000 > best[1] * 10001 * a[2]

Plateau_early(num_bad_epochs) == num_bad_epochs > 1

\* `if self.num_bad_epochs > self.patience:` (reduce the rate)
Plateau(num_bad_epochs) == num_bad_epochs > LrPatience

\* the learning rate in units of the initial one (factor 0.5), and min_lr
Lr(s) == Frac(1, 2 ^ s.lr_halvings)
MinLr == Zero

\* scheduler.step(metrics)
SchedulerStep(s, metrics) ==
    LET better == IsBetter(metrics, s.best)
        best == IF better THEN metrics ELSE s.best
        bad == IF better THEN 0 ELSE s.num_bad_epochs + 1
    IN  IF Plateau(bad)
        THEN [best |-> best, num_bad_epochs |-> 0,
              lr_halvings |-> s.lr_halvings + 1]
        ELSE [best |-> best, num_bad_epochs |-> bad,
              lr_halvings |-> s.lr_halvings]

(***************************************************************************)
(* Files of output_dir.                                                    *)
(***************************************************************************)
ModelNames == {"transformer", "gru", "tcn"}

CheckpointFile(tr, name) ==
    IF tr = "Trainer" THEN "best_model.pth"
    ELSE "best_model_" \o name \o ".pth"

HistoryFile(tr, name) ==
    IF tr = "Trainer" THEN "history.json"
    ELSE "history_" \o name \o ".json"

CheckpointFiles ==
    {"best_model.pth"} \cup {CheckpointFile("MultiModelTrainer", n) : n \in ModelNames}

FileNames ==
    CheckpointFiles \cup {"history.json"}
        \cup {HistoryFile("MultiModelTrainer", n) : n \in ModelNames}
        \cup {"all_models_results.json"}

\* the dict handed to torch.save; model.state_dict() is identified by the
\* run that trained the model and the optimizer steps applied to it
Checkpoint(tr, name, e, acc, r, steps) ==
    IF tr = "Trainer"
    THEN [epoch |-> e, model_state_dict |-> <<r, steps>>,
          optimizer_state_dict |-> <<r, steps>>, val_acc |-> acc,
          hidden_sizes |-> <<256, 128, 64>>]
    ELSE [epoch |-> e, model_state_dict |-> <<r, steps>>,
          val_acc |-> acc, model_name |-> name]

\* what an earlier execution of the script (run 0) may have left in
\* output_dir: a checkpoint of some epoch with a validation accuracy above 0
StaleCheckpoints(tr, name) ==
    {Checkpoint(tr, name, e, Percent(c, ValSize), 0,
                (e + 1) * NumBatches(TrainSize, BatchSize)) :
        e \in 0..(MaxEpochs - 1), c \in 1..ValSize}

NoFiles == [f \in FileNames |-> <<>>]

HistoryInit == [train_loss |-> <<>>, train_acc |-> <<>>,
                val_loss |-> <<>>, val_acc |-> <<>>]

(***************************************************************************)
(* The decisions of the epoch loop.                                        *)
(***************************************************************************)
Improved_or_equal(acc, best) == ~Gt(best, acc)

\* `if val_acc > best_val_acc:`
Improved(acc, best) == Gt(acc, best)

ShouldStop_late(without, pat) == without > pat

ShouldStop_never(without, pat) == FALSE

\* `if epochs_without_improvement >= patience:` (break)
ShouldStop(without, pat) == without >= pat

Weighted_per_batch(loss, size) == loss

\* `loss.item() * X_batch.size(0)`, the summand of train_loss and val_loss
Weighted(loss, size) == loss * size

MoreEpochs_one_more(e, n) == e + 1 <= n

\* `for epoch in range(epochs)`: another iteration follows iteration e
MoreEpochs(e, n) == e + 1 < n

\* the loader being iterated has another batch after batch i
MoreBatches(i, n, bs) == i + 1 < NumBatches(n, bs)

(***************************************************************************)
(* Trainer.train and MultiModelTrainer.train_model.  The two methods run   *)
(* the same loop; they differ in the checkpoint dict and the file names.   *)
(***************************************************************************)
InitTrain ==
    /\ trainer \in {"Trainer", "MultiModelTrainer"}
    /\ pc = "constructed"
    /\ run = 0
    /\ model_name = "none"
    /\ epochs = 0
    /\ patience = 0
    /\ epoch = 0
    /\ batch_i = 0
    /\ train_loss = 0 /\ train_correct = 0 /\ train_total = 0
    /\ val_loss = 0 /\ val_correct = 0 /\ val_total = 0
    /\ history = HistoryInit
    /\ best_val_acc = Zero
    /\ epochs_without_improvement = 0
    /\ scheduler = SchedulerInit
    /\ model_steps = 0
    /\ early_stopped = FALSE
    /\ \/ files = NoFiles
       \/ \E name \in (IF trainer = "Trainer" THEN {"mlp"} ELSE ModelNames) :
            \E old \in StaleCheckpoints(trainer, name) :
              files = [NoFiles EXCEPT ![CheckpointFile(trainer, name)] = <<old>>]
    /\ returned = <<>>
    /\ net \in Nets
    /\ batch_log = NoBatches

\* history[...].append(...): a variant that keeps one record per list and
\* overwrites it
AppendHistory_overwrite(h, tl, ta, vl, va) ==
    [train_loss |-> <<tl>>, train_acc |-> <<ta>>,
     val_loss |-> <<vl>>, val_acc |-> <<va>>]

\* the four history[...].append(...) calls at the end of an epoch
AppendHistory(h, tl, ta, vl, va) ==
    [train_loss |-> Append(h.train_loss, tl),
     train_acc |-> Append(h.train_acc, ta),
     val_loss |-> Append(h.val_loss, vl),
     val_acc |-> Append(h.val_acc, va)]

\* the head of one iteration of the epoch loop: the counters are reset
BeginEpoch(e) ==
    /\ epoch' = e
    /\ batch_i' = 0
    /\ train_loss' = 0 /\ train_correct' = 0 /\ train_total' = 0
    /\ val_loss' = 0 /\ val_correct' = 0 /\ val_total' = 0
    /\ batch_log' = NoBatches
    /\ pc' = "train_batches"

\* entry of train / train_model up to the head of the loop
TrainCall(tr, name, n, pat) ==
    /\ pc = "constructed" \/ (pc = "returned" /\ harness = "running")
    /\ trainer = tr
    /\ run' = run + 1
    /\ model_name' = name
    /\ epochs' = n
    /\ patience' = pat
    /\ history' = HistoryInit
    /\ best_val_acc' = Zero
    /\ epochs_without_improvement' = 0
    /\ scheduler' = SchedulerInit
    /\ model_steps' = 0
    /\ early_stopped' = FALSE
    /\ returned' = <<>>
    /\ IF n > 0
       THEN BeginEpoch(0)
       ELSE /\ pc' = "save_history"
            /\ epoch' = 0 /\ batch_i' = 0
            /\ train_loss' = 0 /\ train_correct' = 0 /\ train_total' = 0
            /\ val_loss' = 0 /\ val_correct' = 0 /\ val_total' = 0
            /\ batch_log' = NoBatches
    /\ UNCHANGED <<trainer, files, net>>

Trainer_train ==
    \E n \in 0..MaxEpochs, pat \in 0..MaxPatience :
        TrainCall("Trainer", "mlp", n, pat)

MultiModelTrainer_train_model ==
    \E name \in ModelNames, n \in 0..MaxEpochs, pat \in 0..MaxPatience :
        TrainCall("MultiModelTrainer", name, n, pat)

\* one iteration of `for ... in train_loader`
TrainBatch ==
    /\ pc = "train_batches"
    /\ LET size == BatchLen(TrainSize, BatchSize, batch_i)
       IN  \E o \in TrainOutcomes(size) :
              /\ train_loss' = train_loss + Weighted(o.loss, size)
              /\ train_total' = train_total + size
              /\ train_correct' = train_correct + o.correct
              /\ batch_log' =
                    [batch_log EXCEPT !.train =
                        Append(@, [size |-> size, loss |-> o.loss,
                                   correct |-> o.correct])]
    /\ model_steps' = model_steps + 1
    /\ IF MoreBatches(batch_i, TrainSize, BatchSize)
       THEN batch_i' = batch_i + 1 /\ pc' = pc
       ELSE batch_i' = 0 /\ pc' = "val_batches"
    /\ UNCHANGED <<trainer, run, model_name, epochs, patience, epoch,
                   val_loss, val_correct, val_total, history, best_val_acc,
                   epochs_without_improvement, scheduler, early_stopped,
                   files, returned, net>>

\* one iteration of `for ... in val_loader` under torch.no_grad()
ValBatch ==
    /\ pc = "val_batches"
    /\ LET size == BatchLen(ValSize, BatchSize, batch_i)
       IN  \E o \in ValOutcomes(size) :
              /\ val_loss' = val_loss + Weighted(o.loss, size)
              /\ val_total' = val_total + size
              /\ val_correct' = val_correct + o.correct
              /\ batch_log' =
                    [batch_log EXCEPT !.val =
                        Append(@, [size |-> size, loss |-> o.loss,
                                   correct |-> o.correct])]
    /\ IF MoreBatches(batch_i, ValSize, BatchSize)
       THEN batch_i' = batch_i + 1 /\ pc' = pc
       ELSE batch_i' = 0 /\ pc' = "epoch_end"
    /\ UNCHANGED <<trainer, run, model_name, epochs, patience, epoch,
                   train_loss, train_correct, train_total, history,
                   best_val_acc, epochs_without_improvement, scheduler,
                   model_steps, early_stopped, files, returned, net>>

\* the rest of the iteration: epoch metrics, history, scheduler, checkpoint
\* and early stopping, then the head of the next iteration or the loop exit
EpochEnd ==
    /\ pc = "epoch_end"
    /\ LET tl == Frac(train_loss, train_total)
           ta == Percent(train_correct, train_total)
           vl == Frac(val_loss, val_total)
           va == Percent(val_correct, val_total)
           improved == Improved(va, best_val_acc)
           without == IF improved THEN 0 ELSE epochs_without_improvement + 1
           stop == ~improved /\ ShouldStop(without, patience)
       IN  /\ history' = AppendHistory(history, tl, ta, vl, va)
           /\ scheduler' = SchedulerStep(scheduler, va)
           /\ best_val_acc' = IF improved THEN va ELSE best_val_acc
           /\ epochs_without_improvement' = without
           /\ files' = IF improved
                       THEN [files EXCEPT
                               ![CheckpointFile(trainer, model_name)] =
                                   <<Checkpoint(trainer, model_name, epoch, va,
                                                run, model_steps)>>]
                       ELSE files
           /\ early_stopped' = stop
           /\ IF ~stop /\ MoreEpochs(epoch, epochs)
              THEN BeginEpoch(epoch + 1)
              ELSE /\ pc' = "save_history"
                   /\ UNCHANGED <<epoch, batch_i, train_loss, train_correct,
                                  train_total, val_loss, val_correct,
                                  val_total, batch_log>>
    /\ UNCHANGED <<trainer, run, model_name, epochs, patience, model_steps,
                   returned, net>>

\* after the loop: json.dump(history) and `return model, history, best_val_acc`
SaveHistory ==
    /\ pc = "save_history"
    /\ files' = [files EXCEPT ![HistoryFile(trainer, model_name)] = <<history>>]
    /\ returned' = <<best_val_acc>>
    /\ pc' = "returned"
    /\ UNCHANGED <<trainer, run, model_name, epochs, patience, epoch, batch_i,
                   train_loss, train_correct, train_total, val_loss,
                   val_correct, val_total, history, best_val_acc,
                   epochs_without_improvement, scheduler, model_steps,
                   early_stopped, net, batch_log>>

(***************************************************************************)
(* An external stop signal.  Neither script installs a signal handler or   *)
(* catches KeyboardInterrupt: Python raises it in the main thread at the   *)
(* instruction being executed, wherever that is, and the exception leaves  *)
(* train / train_model.  Three places are told apart: between two batches, *)
(* inside a training batch (after optimizer.step(), before the counters    *)
(* are updated) and inside torch.save, which writes the checkpoint file    *)
(* in place.                                                               *)
(***************************************************************************)
Interrupted == {"interrupted_between_batches", "interrupted_in_batch",
                "interrupted_in_save"}

\* a checkpoint file that torch.save had opened and not finished writing
PartialCheckpoint(e) == [epoch |-> e, truncated |-> TRUE]

InterruptBetweenBatches ==
    /\ pc \in {"train_batches", "val_batches"}
    /\ pc' = "interrupted_between_batches"
    /\ UNCHANGED <<trainer, run, model_name, epochs, patience, epoch, batch_i,
                   train_loss, train_correct, train_total, val_loss,
                   val_correct, val_total, history, best_val_acc,
                   epochs_without_improvement, scheduler, model_steps,
                   early_stopped, files, returned, net, batch_log>>

InterruptInBatch ==
    /\ pc = "train_batches"
    /\ model_steps' = model_steps + 1
    /\ pc' = "interrupted_in_batch"
    /\ UNCHANGED <<trainer, run, model_name, epochs, patience, epoch, batch_i,
                   train_loss, train_correct, train_total, val_loss,
                   val_correct, val_total, history, best_val_acc,
                   epochs_without_improvement, scheduler, early_stopped,
                   files, returned, net, batch_log>>

\* the epoch improved and the signal arrives while torch.save is writing
InterruptInSave ==
    /\ pc = "epoch_end"
    /\ LET tl == Frac(train_loss, train_total)
           ta == Percent(train_correct, train_total)
           vl == Frac(val_loss, val_total)
           va == Percent(val_correct, val_total)
       IN  /\ Improved(va, best_val_acc)
           /\ history' = AppendHistory(history, tl, ta, vl, va)
           /\ scheduler' = SchedulerStep(scheduler, va)
           /\ best_val_acc' = va
           /\ epochs_without_improvement' = 0
           /\ files' = [files EXCEPT
                          ![CheckpointFile(trainer, model_name)] =
                              <<PartialCheckpoint(epoch)>>]
    /\ pc' = "interrupted_in_save"
    /\ UNCHANGED <<trainer, run, model_name, epochs, patience, epoch, batch_i,
                   train_loss, train_correct, train_total, val_loss,
                   val_correct, val_total, model_steps, early_stopped,
                   returned, net, batch_log>>

(***************************************************************************)
(* Trainer.evaluate and MultiModelTrainer.evaluate_model: load the         *)
(* checkpoint file of the model, run the test set through the model and    *)
(* compare the predictions with the labels.                                *)
(***************************************************************************)
\* label indices that occur in the test data
TestClasses == 0..1

TestLabelings == [1..TestSize -> TestClasses]

\* the predictions of the model over the test set, sample by sample
TestPredictions(labels) ==
    IF net.test_correct = "any" THEN [1..Len(labels) -> TestClasses]
    ELSE {labels, [i \in 1..Len(labels) |-> 1 - labels[i]]}

NumCorrect(preds, labels) ==
    Cardinality({i \in 1..Len(labels) : preds[i] = labels[i]})

\* class_correct / class_total of Trainer.evaluate, for the labels met in
\* the loop over zip(all_preds, all_labels)
ClassReport(preds, labels) ==
    [c \in {labels[i] : i \in 1..Len(labels)} |->
        [correct |-> Cardinality({i \in 1..Len(labels) :
                                    labels[i] = c /\ preds[i] = c}),
         total |-> Cardinality({i \in 1..Len(labels) : labels[i] = c})]]

\* the outcome of a call that torch.load ended with an exception
EvaluateRaised(name) ==
    [name |-> name, error |-> "FileNotFoundError", weights |-> <<>>,
     samples |-> 0, value |-> <<>>, printed |-> <<>>]

\* the outcome of a call that returned: the weights the predictions were
\* made with, the number of test samples passed through the model, the
\* value returned and the per-class lines printed (Trainer.evaluate only)
EvaluateReturned(tr, name, checkpoint, preds) ==
    [name |-> name, error |-> "",
     weights |-> checkpoint.model_state_dict,
     samples |-> Len(preds),
     value |-> <<Percent(NumCorrect(preds, test_labels), Len(test_labels))>>,
     printed |-> IF tr = "Trainer"
                 THEN <<ClassReport(preds, test_labels)>>
                 ELSE <<>>]

Evaluate(tr, name) ==
    /\ trainer = tr
    /\ LET file == files[CheckpointFile(tr, name)]
       IN  IF file = <<>>
           THEN evaluation' = <<EvaluateRaised(name)>>
           ELSE \E preds \in TestPredictions(test_labels) :
                  evaluation' = <<EvaluateReturned(tr, name, file[1], preds)>>

Trainer_evaluate ==
    /\ pc = "returned"
    /\ harness = "idle"
    /\ evaluation = <<>>
    /\ Evaluate("Trainer", "mlp")
    /\ UNCHANGED <<test_labels, harness, results>>

MultiModelTrainer_evaluate_model ==
    /\ pc = "returned"
    /\ harness = "idle"
    /\ evaluation = <<>>
    /\ \E name \in ModelNames : Evaluate("MultiModelTrainer", name)
    /\ UNCHANGED <<test_labels, harness, results>>

InitEval ==
    /\ test_labels \in TestLabelings
    /\ evaluation = <<>>
    /\ harness = "idle"
    /\ results = <<>>

(***************************************************************************)
(* MultiModelTrainer.run_all: train_model then evaluate_model for the      *)
(* three models, one after the other, then all_models_results.json.  The   *)
(* method has no exception handler: an exception of a call ends it.        *)
(***************************************************************************)
Order_gru_first == <<"gru", "transformer", "tcn">>

\* the order of the three blocks of run_all
Order == <<"transformer", "gru", "tcn">>

\* sum(p.numel() for p in model.parameters()): a token per model
Params(name) == <<"params", name>>

run_all ==
    /\ harness = "idle"
    /\ pc = "constructed"
    /\ trainer = "MultiModelTrainer"
    /\ harness' = "running"
    /\ results' = <<>>
    /\ UNCHANGED <<test_labels, evaluation>>

\* self.train_model(model, name) with the default epochs and patience
\* (100 and 15 in the script, 2 and 1 here)
RunAllTrain ==
    /\ harness = "running"
    /\ Len(results) < Len(Order)
    /\ \/ pc = "constructed"
       \/ /\ pc = "returned"
          /\ Len(results) >= 1
          /\ model_name = Order[Len(results)]
    /\ TrainCall("MultiModelTrainer", Order[Len(results) + 1], 2, 1)

\* self.evaluate_model(model, name) and the results[name] assignment
RunAllEvaluate ==
    /\ harness = "running"
    /\ pc = "returned"
    /\ Len(results) < Len(Order)
    /\ model_name = Order[Len(results) + 1]
    /\ Evaluate("MultiModelTrainer", model_name)
    /\ IF evaluation'[1].error # ""
       THEN harness' = "raised" /\ results' = results
       ELSE /\ harness' = harness
            /\ results' =
                 Append(results,
                        [name |-> model_name,
                         best_val_acc |-> returned[1],
                         test_acc |-> evaluation'[1].value[1],
                         params |-> Params(model_name)])
    /\ UNCHANGED test_labels

\* json.dump(results) into all_models_results.json and `return results`
RunAllFinish ==
    /\ harness = "running"
    /\ Len(results) = Len(Order)
    /\ files' = [files EXCEPT !["all_models_results.json"] = <<results>>]
    /\ harness' = "done"
    /\ UNCHANGED <<test_labels, evaluation, results>>

(***************************************************************************)
(* DatasetCleaner.create_splits (03_create_splits.py).                     *)
(*                                                                         *)
(* The samples are loaded class directory by class directory, in sorted    *)
(* order, so all_labels is a run of label 0, then a run of label 1, ...    *)
(* The split itself is sklearn's train_test_split(..., stratify=...,       *)
(* random_state=...), i.e. one draw of StratifiedShuffleSplit; it is       *)
(* modelled step by step below.  numpy's generator is replaced by a small  *)
(* linear congruential generator: what matters is that RandomState(seed)   *)
(* is a fresh, deterministic stream, while the global generator carries    *)
(* its state from one use to the next.  Ratios are integers in percent,    *)
(* and ceil(test_size * n) is computed on exact fractions: for the ratios  *)
(* below and fewer than 60 samples the float products of the script round  *)
(* to the same integers.  Indices are positions 1..n of all_samples (the   *)
(* script counts them from 0).                                             *)
(***************************************************************************)
Classes == <<"a", "b">>

\* label_to_idx of the classes above (they sort first in TARGET_CLASSES)
LabelToIdx(gloss) == CHOOSE i \in 0..(Len(Classes) - 1) : Classes[i + 1] = gloss

\* (train_ratio, val_ratio, test_ratio) in percent; the first is the default
DefaultRatios == <<70, 15, 15>>
Ratios == {DefaultRatios, <<60, 20, 10>>}

DefaultSeed == 42

RngMod == 2 ^ 6
RandomState(seed) == (13 * seed + 7) % RngMod
RngNext(s) == (5 * s + 3) % RngMod
\* a draw in 0..(k - 1) from the state s
RngBelow(s, k) == (s * k) \div RngMod

Swap(x, i, j) == [x EXCEPT ![i] = x[j], ![j] = x[i]]

\* F applied to the value of v (v is evaluated once, before F)
Bind(v, F(_)) == CHOOSE r \in {F(y) : y \in {v}} : TRUE

\* rng.shuffle: Fisher-Yates from the last position down
RECURSIVE Shuffle(_, _, _)
Shuffle(x, i, s) ==
    IF i <= 1 THEN [seq |-> x, state |-> s]
    ELSE Bind(<<Swap(x, i, RngBelow(s, i) + 1), RngNext(s)>>,
              LAMBDA p : Shuffle(p[1], i - 1, p[2]))

\* rng.permutation(x)
Permutation(x, s) == Bind(<<x, s>>, LAMBDA p : Shuffle(p[1], Len(p[1]), p[2]))

RECURSIVE SumSeq(_)
SumSeq(q) == IF q = <<>> THEN 0 ELSE Head(q) + SumSeq(Tail(q))

\* the members of a set of integers in increasing order
Sorted(S) ==
    [i \in 1..Cardinality(S) |->
        CHOOSE v \in S : Cardinality({w \in S : w < v}) = i - 1]

Range(q) == {q[i] : i \in 1..Len(q)}

\* sklearn.utils._approximate_mode: floor of the expected counts, then the
\* draws still missing go to the classes of largest remainder, ties broken
\* by rng.choice(inds, size=add_now, replace=False)
RECURSIVE AddRemainders(_, _, _, _, _)
AddRemainders(floored, remainder, values, need, s) ==
    IF need = 0 \/ values = {} THEN [counts |-> floored, state |-> s]
    ELSE LET value == CHOOSE v \in values : \A w \in values : w <= v
             inds == Sorted({i \in 1..Len(remainder) : remainder[i] = value})
             add_now == IF Len(inds) < need THEN Len(inds) ELSE need
         IN  Bind(Permutation(inds, s),
                  LAMBDA drawn :
                    Bind([i \in 1..Len(floored) |->
                            floored[i]
                              + (IF i \in Range(SubSeq(drawn.seq, 1, add_now))
                                 THEN 1 ELSE 0)],
                         LAMBDA added :
                           AddRemainders(added, remainder, values \ {value},
                                         need - add_now, drawn.state)))

ApproximateMode(class_counts, n_draws, s) ==
    LET total == SumSeq(class_counts)
    IN  Bind(<<[i \in 1..Len(class_counts) |->
                    (class_counts[i] * n_draws) \div total],
               [i \in 1..Len(class_counts) |->
                    (class_counts[i] * n_draws) % total]>>,
             LAMBDA fr :
               IF n_draws - SumSeq(fr[1]) > 0
               THEN AddRemainders(fr[1], fr[2], Range(fr[2]),
                                  n_draws - SumSeq(fr[1]), s)
               ELSE [counts |-> fr[1], state |-> s])

\* the loop over the classes of StratifiedShuffleSplit._iter_indices
RECURSIVE PerClass(_, _, _, _, _)
PerClass(class_indices, n_i, t_i, i, acc) ==
    IF i > Len(class_indices) THEN acc
    ELSE Bind(Permutation(class_indices[i], acc.state),
              LAMBDA p :
                Bind([train |-> acc.train \o SubSeq(p.seq, 1, n_i[i]),
                      test |-> acc.test
                                 \o SubSeq(p.seq, n_i[i] + 1, n_i[i] + t_i[i]),
                      state |-> p.state],
                     LAMBDA next :
                       PerClass(class_indices, n_i, t_i, i + 1, next)))

SplitError(s) == [error |-> "ValueError", train |-> <<>>, test |-> <<>>, state |-> s]

\* the draw itself, for class_indices (the positions of each class) that
\* passed the checks
DrawSplit(class_indices, n_train, n_test, s) ==
    LET class_counts == [c \in 1..Len(class_indices) |-> Len(class_indices[c])]
    IN  Bind(ApproximateMode(class_counts, n_train, s),
          LAMBDA n_i :
            Bind(ApproximateMode([c \in 1..Len(class_counts) |->
                                     class_counts[c] - n_i.counts[c]],
                                 n_test, n_i.state),
              LAMBDA t_i :
                Bind(PerClass(class_indices, n_i.counts, t_i.counts, 1,
                              [train |-> <<>>, test |-> <<>>,
                               state |-> t_i.state]),
                  LAMBDA picked :
                    Bind(Permutation(picked.train, picked.state),
                      LAMBDA train :
                        Bind(Permutation(picked.test, train.state),
                          LAMBDA test :
                            [error |-> "", train |-> train.seq,
                             test |-> test.seq, state |-> test.state])))))

\* one (train, test) draw of StratifiedShuffleSplit over the labels y:
\* positions 1..Len(y), or ValueError
StratifiedShuffleSplit(y, n_train, n_test, s) ==
    Bind(Sorted(Range(y)),
      LAMBDA classes :
        Bind([c \in 1..Len(classes) |->
                 Sorted({k \in 1..Len(y) : y[k] = classes[c]})],
          LAMBDA class_indices :
            IF \E c \in 1..Len(classes) : Len(class_indices[c]) < 2
            THEN SplitError(s)
            ELSE IF n_train < Len(classes) \/ n_test < Len(classes)
            THEN SplitError(s)
            ELSE DrawSplit(class_indices, n_train, n_test, s)))

\* train_test_split(array, test_size=num/den, stratify=y, random_state=rng)
TrainTestSplit(array, test_size, y, s) ==
    LET n == Len(array)
        n_test == (test_size[1] * n + test_size[2] - 1) \div test_size[2]
        n_train == n - n_test
    IN  IF ~(0 < test_size[1] /\ test_size[1] < test_size[2]) THEN SplitError(s)
        ELSE IF n_train = 0 THEN SplitError(s)
        ELSE Bind(StratifiedShuffleSplit(y, n_train, n_test, s),
               LAMBDA r :
                 [error |-> r.error,
                  train |-> [k \in 1..Len(r.train) |-> array[r.train[k]]],
                  test |-> [k \in 1..Len(r.test) |-> array[r.test[k]]],
                  state |-> r.state])

\* the random_state argument: <<>> is None, <<seed>> an int
None == <<>>

SplitRng_unseeded(random_state, global) == [state |-> global, global |-> TRUE]

\* check_random_state(random_state): a fresh generator seeded with the int
\* (the global generator is not used), or numpy's global generator for None
SplitRng(random_state, global) ==
    IF random_state = None
    THEN [state |-> global, global |-> TRUE]
    ELSE [state |-> RandomState(random_state[1]), global |-> FALSE]

\* all_labels for the class directories of output_dir
RECURSIVE AllLabels(_, _)
AllLabels(counts, c) ==
    IF c > Len(Classes) THEN <<>>
    ELSE [k \in 1..counts[Classes[c]] |-> LabelToIdx(Classes[c])]
            \o AllLabels(counts, c + 1)

Splits_copy_paste(train_idx, val_idx, test_idx) ==
    [train |-> train_idx, val |-> val_idx, test |-> val_idx]

\* the `splits` dict, as lists of indices into all_samples
Splits(train_idx, val_idx, test_idx) ==
    [train |-> train_idx, val |-> val_idx, test |-> test_idx]

NoSplits == [train |-> <<>>, val |-> <<>>, test |-> <<>>]

\* the second train_test_split of create_splits, on train_val_idx
SecondSplit(all_labels, ratios, random_state, first, global1) ==
    LET rng2 == SplitRng(random_state, global1)
    IN  Bind(TrainTestSplit(first.train,
                            <<ratios[2], ratios[1] + ratios[2]>>,
                            [k \in 1..Len(first.train) |->
                                all_labels[first.train[k]]],
                            rng2.state),
          LAMBDA second :
            LET global2 == IF rng2.global THEN second.state ELSE global1
            IN  IF second.error # ""
                THEN [error |-> second.error, splits |-> NoSplits,
                      global |-> global2]
                ELSE [error |-> "",
                      splits |-> Splits(second.train, second.test, first.test),
                      global |-> global2])

\* what one call of create_splits computes from the loaded labels
CreateSplits(all_labels, ratios, random_state, global) ==
    LET rng1 == SplitRng(random_state, global)
    IN  IF Len(all_labels) = 0
        THEN [error |-> "ValueError", splits |-> NoSplits, global |-> global]
        ELSE Bind(TrainTestSplit([k \in 1..Len(all_labels) |-> k],
                                 <<ratios[3], 100>>, all_labels, rng1.state),
               LAMBDA first :
                 LET global1 == IF rng1.global THEN first.state ELSE global
                 IN  IF first.error # ""
                     THEN [error |-> first.error, splits |-> NoSplits,
                           global |-> global1]
                     ELSE SecondSplit(all_labels, ratios, random_state,
                                      first, global1))

SplitFileNames == {"train.pkl", "val.pkl", "test.pkl", "metadata.json"}

Seeds == {None} \cup {<<seed>> : seed \in {DefaultSeed} \cup 0..MaxSeed}

InitSplit ==
    /\ sample_counts \in [Range(Classes) -> 0..MaxPerClass]
    /\ np_random \in {RandomState(k) : k \in 0..MaxSeed}
    /\ calls = <<>>
    /\ split_files = [f \in SplitFileNames |-> <<>>]

\* one call of create_splits: load, split, then write the three split files
\* and metadata.json; an exception leaves the files as they were
create_splits ==
    \E ratios \in Ratios, random_state \in Seeds :
        /\ Len(calls) < MaxCalls
        /\ \E r \in {CreateSplits(AllLabels(sample_counts, 1), ratios,
                                   random_state, np_random)} :
               /\ calls' = Append(calls, [ratios |-> ratios,
                                          random_state |-> random_state,
                                          error |-> r.error,
                                          splits |-> r.splits])
               /\ np_random' = r.global
               /\ split_files' =
                    IF r.error # "" THEN split_files
                    ELSE [f \in SplitFileNames |->
                            IF f = "train.pkl" THEN <<r.splits.train>>
                            ELSE IF f = "val.pkl" THEN <<r.splits.val>>
                            ELSE IF f = "test.pkl" THEN <<r.splits.test>>
                            ELSE <<[splits |-> <<Len(r.splits.train),
                                                Len(r.splits.val),
                                                Len(r.splits.test)>>,
                                    ratios |-> ratios]>>]
        /\ UNCHANGED sample_counts

(***************************************************************************)
(* SequenceDataset.__getitem__ and collate_sequences (05_train_temporal.py)*)
(* A landmark sequence is a list of frames, a frame a row of features.     *)
(***************************************************************************)
\* the frames that occur: the all-zero frame and another one
Frames == {<<0, 0>>, <<1, 2>>}

\* the samples of the dataset file: landmarks of 1..MaxSeqLen frames, a label
Samples ==
    {[landmarks |-> l, label |-> y] :
        l \in UNION {[1..n -> Frames] : n \in 1..MaxSeqLen}, y \in 0..1}

\* __getitem__: (landmarks, label, seq_length)
GetItem(sample) == <<sample.landmarks, sample.label, Len(sample.landmarks)>>

MaxLen(sequences) ==
    CHOOSE n \in {Len(sequences[i]) : i \in 1..Len(sequences)} :
        \A i \in 1..Len(sequences) : Len(sequences[i]) <= n

PadSequence_leading(sequences, padding_value) ==
    [i \in 1..Len(sequences) |->
        [t \in 1..MaxLen(sequences) |->
            LET shift == MaxLen(sequences) - Len(sequences[i])
            IN  IF t > shift
                THEN sequences[i][t - shift]
                ELSE [k \in 1..Len(sequences[1][1]) |-> padding_value]]]

\* torch.nn.utils.rnn.pad_sequence(sequences, batch_first=True,
\* padding_value): entry i holds sequence i followed by frames filled with
\* padding_value up to the longest length
PadSequence(sequences, padding_value) ==
    [i \in 1..Len(sequences) |->
        [t \in 1..MaxLen(sequences) |->
            IF t <= Len(sequences[i])
            THEN sequences[i][t]
            ELSE [k \in 1..Len(sequences[1][1]) |-> padding_value]]]

\* zip(*batch)
Unzip(b, k) == [i \in 1..Len(b) |-> b[i][k]]

\* a batch as the DataLoader builds it: 1..BatchSize dataset items
InitCollate ==
    /\ \E n \in 1..BatchSize :
          batch \in [1..n -> {GetItem(sample) : sample \in Samples}]
    /\ collated = <<>>
    /\ forward = <<>>

collate_sequences ==
    /\ collated = <<>>
    /\ batch # <<>>
    /\ LET sequences == Unzip(batch, 1)
           labels == Unzip(batch, 2)
           lengths == Unzip(batch, 3)
       IN  collated' = <<[padded_sequences |-> PadSequence(sequences, 0),
                          labels |-> labels,
                          lengths |-> lengths]>>
    /\ UNCHANGED <<batch, forward>>

\* the passes that iterate a loader built with collate_fn=collate_sequences
Passes == {"train", "val", "test"}

\* the body of `for sequences, labels, lengths in loader`: the arguments of
\* model(...) and, in train_model, of criterion(...); `lengths` is bound by
\* the for statement and not used again
ForwardPass ==
    /\ collated # <<>>
    /\ forward = <<>>
    /\ \E pass \in Passes :
          LET sequences == collated[1].padded_sequences
              labels == collated[1].labels
          IN  forward' =
                <<[pass |-> pass,
                   model |-> [x |-> sequences],
                   criterion |-> IF pass = "test" THEN <<>>
                                 ELSE <<[target |-> labels]>>]>>
    /\ UNCHANGED <<batch, collated>>

\* the components not in use stay as constructed
CollateIdle ==
    /\ batch = <<>>
    /\ collated = <<>>
    /\ forward = <<>>

EvalIdle ==
    /\ InitEval
    /\ test_labels = [i \in 1..TestSize |-> i % 2]

TrainIdle ==
    /\ InitTrain
    /\ trainer = "Trainer"
    /\ files = NoFiles
    /\ net = FixedNet
    /\ EvalIdle

SplitIdle ==
    /\ InitSplit
    /\ sample_counts = [c \in Range(Classes) |-> 0]
    /\ np_random = RandomState(0)

NextTrain ==
    \/ Trainer_train /\ UNCHANGED <<splitVars, collateVars, harnessVars>>
    \/ MultiModelTrainer_train_model /\ UNCHANGED <<splitVars, collateVars, harnessVars>>
    \/ TrainBatch /\ UNCHANGED <<splitVars, collateVars, harnessVars>>
    \/ ValBatch /\ UNCHANGED <<splitVars, collateVars, harnessVars>>
    \/ EpochEnd /\ UNCHANGED <<splitVars, collateVars, harnessVars>>
    \/ SaveHistory /\ UNCHANGED <<splitVars, collateVars, harnessVars>>

InitSpecTrain ==
    InitTrain /\ net = FixedNet /\ EvalIdle /\ SplitIdle /\ CollateIdle

SpecTrain == InitSpecTrain /\ [][NextTrain]_vars

NextSplit == create_splits /\ UNCHANGED <<trainVars, collateVars, harnessVars>>

InitSpecSplit == InitSplit /\ TrainIdle /\ CollateIdle

SpecSplit == InitSpecSplit /\ [][NextSplit]_vars

NextCollate ==
    \/ collate_sequences /\ UNCHANGED <<trainVars, splitVars, harnessVars>>
    \/ ForwardPass /\ UNCHANGED <<trainVars, splitVars, harnessVars>>

InitSpecCollate == InitCollate /\ TrainIdle /\ SplitIdle

SpecCollate == InitSpecCollate /\ [][NextCollate]_vars

\* one epoch (patience 1) of either script with a model whose losses and
\* predictions differ from batch to batch
OneEpoch ==
    \E tr \in {"Trainer", "MultiModelTrainer"} :
        TrainCall(tr, IF tr = "Trainer" THEN "mlp" ELSE "gru", 1, 1)

NextMetrics ==
    \/ OneEpoch /\ UNCHANGED <<splitVars, collateVars, harnessVars>>
    \/ TrainBatch /\ UNCHANGED <<splitVars, collateVars, harnessVars>>
    \/ ValBatch /\ UNCHANGED <<splitVars, collateVars, harnessVars>>
    \/ EpochEnd /\ UNCHANGED <<splitVars, collateVars, harnessVars>>
    \/ SaveHistory /\ UNCHANGED <<splitVars, collateVars, harnessVars>>

\* a run long enough for the scheduler to act: LrPatience + 2 epochs, with
\* a patience that does not stop it earlier
LrEpochs == LrPatience + 2

LongRun ==
    \E tr \in {"Trainer", "MultiModelTrainer"} :
        TrainCall(tr, IF tr = "Trainer" THEN "mlp" ELSE "tcn",
                  LrEpochs, LrEpochs)

NextLr ==
    \/ LongRun /\ UNCHANGED <<splitVars, collateVars, harnessVars>>
    \/ TrainBatch /\ UNCHANGED <<splitVars, collateVars, harnessVars>>
    \/ ValBatch /\ UNCHANGED <<splitVars, collateVars, harnessVars>>
    \/ EpochEnd /\ UNCHANGED <<splitVars, collateVars, harnessVars>>
    \/ SaveHistory /\ UNCHANGED <<splitVars, collateVars, harnessVars>>

InitSpecLr ==
    /\ InitTrain /\ net = CoarseNet /\ files = NoFiles
    /\ EvalIdle /\ SplitIdle /\ CollateIdle

SpecLr == InitSpecLr /\ [][NextLr]_vars

InitSpecMetrics ==
    /\ InitTrain /\ net = FreeNet /\ files = NoFiles
    /\ EvalIdle /\ SplitIdle /\ CollateIdle

SpecMetrics == InitSpecMetrics /\ [][NextMetrics]_vars

\* a short run (2 epochs, patience 1) of either script, then its evaluation
ShortRun ==
    \/ TrainCall("Trainer", "mlp", 2, 1)
    \/ \E name \in ModelNames : TrainCall("MultiModelTrainer", name, 2, 1)

NextEval ==
    \/ ShortRun /\ UNCHANGED <<splitVars, collateVars, harnessVars>>
    \/ TrainBatch /\ UNCHANGED <<splitVars, collateVars, harnessVars>>
    \/ ValBatch /\ UNCHANGED <<splitVars, collateVars, harnessVars>>
    \/ EpochEnd /\ UNCHANGED <<splitVars, collateVars, harnessVars>>
    \/ SaveHistory /\ UNCHANGED <<splitVars, collateVars, harnessVars>>
    \/ Trainer_evaluate /\ UNCHANGED <<trainVars, splitVars, collateVars>>
    \/ MultiModelTrainer_evaluate_model
          /\ UNCHANGED <<trainVars, splitVars, collateVars>>

InitSpecEval ==
    /\ InitTrain /\ net = CoarseNet
    /\ InitEval /\ SplitIdle /\ CollateIdle

SpecEval == InitSpecEval /\ [][NextEval]_vars

NextCancel ==
    \/ ShortRun /\ UNCHANGED <<splitVars, collateVars, harnessVars>>
    \/ TrainBatch /\ UNCHANGED <<splitVars, collateVars, harnessVars>>
    \/ ValBatch /\ UNCHANGED <<splitVars, collateVars, harnessVars>>
    \/ EpochEnd /\ UNCHANGED <<splitVars, collateVars, harnessVars>>
    \/ SaveHistory /\ UNCHANGED <<splitVars, collateVars, harnessVars>>
    \/ InterruptBetweenBatches
          /\ UNCHANGED <<splitVars, collateVars, harnessVars>>
    \/ InterruptInBatch /\ UNCHANGED <<splitVars, collateVars, harnessVars>>
    \/ InterruptInSave /\ UNCHANGED <<splitVars, collateVars, harnessVars>>

InitSpecCancel ==
    /\ InitTrain /\ net = CoarseNet
    /\ EvalIdle /\ SplitIdle /\ CollateIdle

SpecCancel == InitSpecCancel /\ [][NextCancel]_vars

NextRunAll ==
    \/ run_all /\ UNCHANGED <<trainVars, splitVars, collateVars>>
    \/ RunAllTrain /\ UNCHANGED <<splitVars, collateVars, harnessVars>>
    \/ TrainBatch /\ UNCHANGED <<splitVars, collateVars, harnessVars>>
    \/ ValBatch /\ UNCHANGED <<splitVars, collateVars, harnessVars>>
    \/ EpochEnd /\ UNCHANGED <<splitVars, collateVars, harnessVars>>
    \/ SaveHistory /\ UNCHANGED <<splitVars, collateVars, harnessVars>>
    \/ RunAllEvaluate /\ UNCHANGED <<trainVars, splitVars, collateVars>>
    \/ RunAllFinish
          /\ UNCHANGED <<trainer, pc, run, model_name, epochs, patience, epoch,
                         batch_i, train_loss, train_correct, train_total,
                         val_loss, val_correct, val_total, history,
                         best_val_acc, epochs_without_improvement, scheduler,
                         model_steps, early_stopped, returned, net, batch_log,
                         splitVars, collateVars>>

InitSpecRunAll ==
    /\ InitTrain /\ trainer = "MultiModelTrainer" /\ net = CoarsestNet
    /\ EvalIdle /\ SplitIdle /\ CollateIdle

SpecRunAll == InitSpecRunAll /\ [][NextRunAll]_vars

\* the training steps are sequential code over finite loaders: a step
\* that can be taken is taken
FairSpecTrain ==
    SpecTrain /\ WF_vars((TrainBatch \/ ValBatch \/ EpochEnd \/ SaveHistory)
                             /\ UNCHANGED <<splitVars, collateVars, harnessVars>>)

(***************************************************************************)
(* Properties of the training loop.                                        *)
(***************************************************************************)
Running == {"train_batches", "val_batches", "epoch_end"}
Finished == {"save_history", "returned"}

\* the largest of 0 and the first k entries of a list of accuracies
RECURSIVE RunningBest(_, _)
RunningBest(h, k) ==
    IF k = 0 THEN Zero
    ELSE LET b == RunningBest(h, k - 1)
         IN  IF Gt(h[k], b) THEN h[k] ELSE b

\* max(h) of a non-empty list (accuracies are never negative)
MaxOf(h) == RunningBest(h, Len(h))

\* the epochs (numbered from 1) whose accuracy strictly exceeds all before
ImprovingEpochs(h) == {i \in 1..Len(h) : Gt(h[i], RunningBest(h, i - 1))}

Largest(S) == CHOOSE x \in S : \A y \in S : y <= x
Smallest(S) == CHOOSE x \in S : \A y \in S : x <= y

ThisCheckpoint == files[CheckpointFile(trainer, model_name)]

\* C1: with patience >= 1 and the last strict improvement of val_acc at
\* epoch e (epochs numbered from 1), no epoch after e + patience is ever
\* started, and a run that has left the loop with max_epochs >= e + patience
\* has run exactly e + patience epochs.
EarlyStopExact ==
    LET h == history.val_acc
        imp == ImprovingEpochs(h)
    IN  (run = 1 /\ patience >= 1 /\ imp # {}) =>
            LET e == Largest(imp)
            IN  /\ Len(h) <= e + patience
                /\ pc \in Running => epoch + 1 <= e + patience
                /\ (pc \in Finished /\ e + patience <= epochs)
                       => Len(h) = e + patience

\* a run stopped by the break, two epochs after its last improvement and
\* before max_epochs
EarlyStopExactWitness ==
    /\ pc = "returned"
    /\ early_stopped
    /\ patience = 2
    /\ ImprovingEpochs(history.val_acc) # {}
    /\ Len(history.val_acc) = Largest(ImprovingEpochs(history.val_acc)) + 2
    /\ Len(history.val_acc) <= epochs

\* C2 (as claimed): after a run of at least one epoch the checkpoint file
\* of the model exists and its val_acc is max(history['val_acc']) and the
\* returned best_val_acc.
CheckpointIsBestOfRun ==
    (pc = "returned" /\ Len(history.val_acc) > 0) =>
        /\ Len(ThisCheckpoint) = 1
        /\ Eq(ThisCheckpoint[1].val_acc, MaxOf(history.val_acc))
        /\ Eq(ThisCheckpoint[1].val_acc, returned[1])

\* C3: the checkpoint file changes in a step exactly when the step ends an
\* epoch whose val_acc is strictly above best_val_acc, and a checkpoint
\* written by this run carries the earliest epoch that reached the highest
\* val_acc of the run so far.
CheckpointOnlyOnStrictImprovement ==
    /\ [][(\E f \in CheckpointFiles : files'[f] # files[f])
            <=> (pc = "epoch_end"
                 /\ Gt(Percent(val_correct, val_total), best_val_acc))]_vars
    /\ [](\A f \in CheckpointFiles :
            (Len(files[f]) = 1 /\ files[f][1].model_state_dict[1] = 1) =>
                /\ f = CheckpointFile(trainer, model_name)
                /\ files[f][1].epoch + 1 =
                     Smallest({i \in 1..Len(history.val_acc) :
                                 Eq(history.val_acc[i], MaxOf(history.val_acc))}))

\* an epoch tied the best val_acc and the checkpoint still is that of the
\* earlier epoch
CheckpointTieWitness ==
    /\ pc = "returned"
    /\ Len(history.val_acc) = 3
    /\ Len(ThisCheckpoint) = 1
    /\ ThisCheckpoint[1].model_state_dict[1] = 1
    /\ ThisCheckpoint[1].epoch = 1
    /\ Eq(history.val_acc[2], history.val_acc[3])
    /\ Gt(history.val_acc[2], history.val_acc[1])
    /\ Gt(history.val_acc[1], Zero)

\* C4 (as claimed): for every patience, 0 included, no epoch runs from a
\* state with epochs_without_improvement >= patience or with max_epochs
\* epochs already run.
TerminalForAnyPatience ==
    pc \in Running =>
        /\ epochs_without_improvement < patience
        /\ Len(history.val_acc) < epochs

\* C4 (amended): the same for patience >= 1.
TerminalForPositivePatience ==
    (pc \in Running /\ patience >= 1) =>
        /\ epochs_without_improvement < patience
        /\ Len(history.val_acc) < epochs

\* the counter reached patience with epochs left to run, and the loop ended
TerminalWitness ==
    /\ pc = "save_history"
    /\ patience >= 1
    /\ epochs_without_improvement >= patience
    /\ Len(history.val_acc) < epochs

LoadedLabels == AllLabels(sample_counts, 1)

ValidRatios(ratios) == ratios[1] + ratios[2] + ratios[3] = 100

NoDuplicates(q) == \A i, j \in 1..Len(q) : i # j => q[i] # q[j]

\* the calls that returned
Succeeded == {i \in 1..Len(calls) : calls[i].error = ""}

\* the label indices of the classes with at least k loaded samples
ClassesWith(k) ==
    {LabelToIdx(Classes[c]) : c \in {d \in 1..Len(Classes) :
                                        sample_counts[Classes[d]] >= k}}

LabelsOf(idx) == {LoadedLabels[idx[k]] : k \in 1..Len(idx)}

\* C6: for valid ratios, the train, val and test index lists of a call that
\* returned are pairwise disjoint, list no index twice, and together are
\* exactly the indices of the loaded samples, so their lengths add up to
\* the number of samples.
SplitsPartition ==
    \A i \in Succeeded :
        ValidRatios(calls[i].ratios) =>
            LET train == calls[i].splits.train
                val == calls[i].splits.val
                test == calls[i].splits.test
            IN  /\ Range(train) \cap Range(val) = {}
                /\ Range(train) \cap Range(test) = {}
                /\ Range(val) \cap Range(test) = {}
                /\ NoDuplicates(train) /\ NoDuplicates(val) /\ NoDuplicates(test)
                /\ Range(train) \cup Range(val) \cup Range(test)
                     = 1..Len(LoadedLabels)
                /\ Len(train) + Len(val) + Len(test) = Len(LoadedLabels)

\* a call with valid ratios returned three non-empty splits of two classes
SplitsPartitionWitness ==
    \E i \in Succeeded :
        /\ ValidRatios(calls[i].ratios)
        /\ ClassesWith(1) = Range([c \in 1..Len(Classes) |-> c - 1])
        /\ calls[i].splits.train # <<>>
        /\ calls[i].splits.val # <<>>
        /\ calls[i].splits.test # <<>>

\* C7: in a call that returned (valid ratios), every class with at least 3
\* loaded samples has at least one sample in each of train, val and test.
EveryClassInEverySplit ==
    \A i \in Succeeded :
        ValidRatios(calls[i].ratios) =>
            /\ ClassesWith(3) \subseteq LabelsOf(calls[i].splits.train)
            /\ ClassesWith(3) \subseteq LabelsOf(calls[i].splits.val)
            /\ ClassesWith(3) \subseteq LabelsOf(calls[i].splits.test)

\* C8: two calls on the same samples with the same ratios and the same
\* integer random_state have the same outcome: the same train, val and test
\* index lists, element by element.
SameSeedSameSplits ==
    \A i, j \in 1..Len(calls) :
        (/\ calls[i].random_state # None
         /\ calls[i].random_state = calls[j].random_state
         /\ calls[i].ratios = calls[j].ratios)
            => /\ calls[i].error = calls[j].error
               /\ calls[i].splits = calls[j].splits

\* the same seeded call was made twice and returned splits the second time
SameSeedSameSplitsWitness ==
    /\ Len(calls) = 2
    /\ calls[1].random_state # None
    /\ calls[1].random_state = calls[2].random_state
    /\ calls[1].ratios = calls[2].ratios
    /\ 2 \in Succeeded
    /\ Len(calls[2].splits.train) >= 4
    /\ split_files["train.pkl"] = <<calls[2].splits.train>>

\* the input the specification calls invalid: ratios that do not sum to
\* 1.0, or a class directory with fewer than 3 samples
InvalidInput(ratios) ==
    \/ ~ValidRatios(ratios)
    \/ \E c \in 1..Len(Classes) : sample_counts[Classes[c]] < 3

\* C9: a call on invalid input fails with InsufficientSamplesError, and as
\* long as every call made was on invalid input no split file and no
\* metadata file exists.
RejectsInvalidInput ==
    /\ \A i \in 1..Len(calls) :
          InvalidInput(calls[i].ratios) =>
              calls[i].error = "InsufficientSamplesError"
    /\ (\A i \in 1..Len(calls) : InvalidInput(calls[i].ratios)) =>
          \A f \in SplitFileNames : split_files[f] = <<>>


(***************************************************************************)
(* Properties of collate_sequences.                                        *)
(***************************************************************************)
AllZero(frame) == \A k \in 1..Len(frame) : frame[k] = 0

\* C10: in the value collate_sequences returns, every padded entry is as
\* long as the longest sequence of the batch; entry i starts with the
\* frames of sample i unchanged and every frame after them is all zero;
\* lengths[i] is the number of frames of sample i; labels[i] is its label.
CollatePadsCorrectly ==
    collated # <<>> =>
        LET out == collated[1]
            longest == Largest({Len(batch[i][1]) : i \in 1..Len(batch)})
        IN  /\ Len(out.padded_sequences) = Len(batch)
            /\ Len(out.lengths) = Len(batch)
            /\ Len(out.labels) = Len(batch)
            /\ \A i \in 1..Len(batch) :
                  /\ Len(out.padded_sequences[i]) = longest
                  /\ out.lengths[i] = Len(batch[i][1])
                  /\ out.labels[i] = batch[i][2]
                  /\ \A t \in 1..longest :
                        IF t <= Len(batch[i][1])
                        THEN out.padded_sequences[i][t] = batch[i][1][t]
                        ELSE AllZero(out.padded_sequences[i][t])

\* a collated batch whose first sample is shorter than the second, has a
\* frame that is not zero, and carries a different label
CollatePadsCorrectlyWitness ==
    /\ collated # <<>>
    /\ Len(batch) = 2
    /\ Len(batch[1][1]) < Len(batch[2][1])
    /\ ~AllZero(batch[1][1][1])
    /\ batch[1][2] # batch[2][2]
    /\ Len(collated[1].padded_sequences[1]) = Len(batch[2][1])


\* some sample of the collated batch has padded timesteps
HasPadding ==
    \E i \in 1..Len(batch) :
        Len(batch[i][1]) < Len(collated[1].padded_sequences[i])

\* C11: whenever the loop body runs the model on a batch that contains
\* padded timesteps (train, val or test pass), the true lengths computed by
\* collate_sequences are among the arguments of the model call, so that
\* the padded timesteps can be masked.
LengthsReachModel ==
    (forward # <<>> /\ HasPadding) =>
        /\ "lengths" \in DOMAIN forward[1].model
        /\ forward[1].model["lengths"] = collated[1].lengths


(***************************************************************************)
(* Properties of the epoch metrics.                                        *)
(***************************************************************************)
\* over the batches of one pass: sum of loss * size, of size, of correct,
\* and of the bare per-batch losses
LossTimesSize(log) == SumSeq([i \in 1..Len(log) |-> log[i].loss * log[i].size])
TotalSize(log) == SumSeq([i \in 1..Len(log) |-> log[i].size])
TotalCorrect(log) == SumSeq([i \in 1..Len(log) |-> log[i].correct])
\* the plain means of the per-batch losses and per-batch accuracies
RECURSIVE SizeProduct(_)
SizeProduct(log) ==
    IF log = <<>> THEN 1 ELSE Head(log).size * SizeProduct(Tail(log))

MeanOfBatchLosses(log) ==
    Frac(SumSeq([i \in 1..Len(log) |-> log[i].loss]), Len(log))

MeanOfBatchAccuracies(log) ==
    Frac(SumSeq([i \in 1..Len(log) |->
                   100 * log[i].correct * (SizeProduct(log) \div log[i].size)]),
         Len(log) * SizeProduct(log))

Last(q) == q[Len(q)]

\* C12: when the two passes of an epoch are over, the accumulators hold
\* sum(batch_loss * batch_size), the total of correct predictions and the
\* total of samples of each pass, and the epoch's history entry is
\* sum(batch_loss * batch_size) / total and 100 * correct / total, for the
\* training and for the validation pass, in both scripts.
EpochMetricsSizeWeighted ==
    /\ pc = "epoch_end" =>
          /\ train_loss = LossTimesSize(batch_log.train)
          /\ train_total = TotalSize(batch_log.train)
          /\ train_correct = TotalCorrect(batch_log.train)
          /\ val_loss = LossTimesSize(batch_log.val)
          /\ val_total = TotalSize(batch_log.val)
          /\ val_correct = TotalCorrect(batch_log.val)
    /\ (pc \in {"save_history", "returned"} /\ history.val_acc # <<>>) =>
          /\ TotalSize(batch_log.train) = TrainSize
          /\ TotalSize(batch_log.val) = ValSize
          /\ Eq(Last(history.train_loss),
                Frac(LossTimesSize(batch_log.train), TrainSize))
          /\ Eq(Last(history.train_acc),
                Percent(TotalCorrect(batch_log.train), TrainSize))
          /\ Eq(Last(history.val_loss),
                Frac(LossTimesSize(batch_log.val), ValSize))
          /\ Eq(Last(history.val_acc),
                Percent(TotalCorrect(batch_log.val), ValSize))

\* an epoch over batches of uneven sizes whose recorded training loss is
\* not the plain mean of the batch losses and whose recorded validation
\* accuracy is not the plain mean of the batch accuracies
EpochMetricsWitness ==
    /\ pc = "returned"
    /\ history.val_acc # <<>>
    /\ \E i, j \in 1..Len(batch_log.train) :
          batch_log.train[i].size # batch_log.train[j].size
    /\ ~Eq(Last(history.train_loss), MeanOfBatchLosses(batch_log.train))
    /\ ~Eq(Last(history.train_acc), MeanOfBatchAccuracies(batch_log.train))
    /\ ~Eq(Last(history.val_loss), MeanOfBatchLosses(batch_log.val))
    /\ ~Eq(Last(history.val_acc), MeanOfBatchAccuracies(batch_log.val))


(***************************************************************************)
(* Properties of the learning-rate scheduler.                              *)
(***************************************************************************)
\* C13: the scheduler is stepped once in the step that ends an epoch, with
\* the accuracy just recorded, and in no other step of the loop; a step
\* halves the rate at most once, and only when none of the last
\* LrPatience + 1 recorded accuracies exceeds the best recorded before
\* them; the rate never increases and never goes below min_lr; the
\* early-stopping counter follows val_acc > best_val_acc alone and the
\* scheduler's counter follows the scheduler's own best alone.
LrSchedule ==
    /\ [](~Gt(MinLr, Lr(scheduler)))
    /\ [][/\ pc # "epoch_end" /\ pc # "constructed" => scheduler' = scheduler
          /\ pc = "epoch_end" =>
               LET h == history'.val_acc
                   n == Len(h)
                   va == Last(h)
               IN  /\ n = Len(history.val_acc) + 1
                   /\ scheduler' = SchedulerStep(scheduler, va)
                   /\ ~Gt(Lr(scheduler'), Lr(scheduler))
                   /\ scheduler'.lr_halvings # scheduler.lr_halvings =>
                        /\ scheduler'.lr_halvings = scheduler.lr_halvings + 1
                        /\ n > LrPatience + 1
                        /\ \A k \in (n - LrPatience)..n :
                             ~Gt(h[k], RunningBest(h, n - LrPatience - 1))
                   /\ epochs_without_improvement' =
                        IF Gt(va, best_val_acc) THEN 0
                        ELSE epochs_without_improvement + 1
                   /\ scheduler'.num_bad_epochs \in
                        {0, scheduler.num_bad_epochs + 1}
                   /\ IsBetter(va, scheduler.best) =>
                        scheduler'.num_bad_epochs = 0]_vars

\* the rate was halved in the last epoch while the early-stopping counter
\* kept counting: the scheduler's counter is back at 0, the other is not
LrScheduleWitness ==
    /\ pc = "returned"
    /\ scheduler.lr_halvings = 1
    /\ scheduler.num_bad_epochs = 0
    /\ epochs_without_improvement = LrPatience + 1
    /\ Len(history.val_acc) = LrEpochs
    /\ ~early_stopped


(***************************************************************************)
(* Properties of evaluate / evaluate_model.                                *)
(***************************************************************************)
\* the last evaluate call was for the model that the run trained
EvaluatedOwnModel ==
    /\ evaluation # <<>>
    /\ pc = "returned"
    /\ evaluation[1].name = model_name

\* C14: evaluating the model of a run in which no epoch had val_acc above
\* the initial best_val_acc (the run wrote no checkpoint) fails with
\* CheckpointNotFoundError; it returns no test accuracy.
NoImprovementNoEvaluation ==
    (EvaluatedOwnModel /\ ImprovingEpochs(history.val_acc) = {}) =>
        /\ evaluation[1].error = "CheckpointNotFoundError"
        /\ evaluation[1].value = <<>>

\* C18: an evaluate call that returns has passed every test sample through
\* the model once, with the parameters of the checkpoint file loaded and
\* no optimizer step, and returns the aggregate accuracy together with a
\* per-class accuracy whose classes are exactly those of the test labels.
EvaluateReturnsPerClass ==
    (EvaluatedOwnModel /\ evaluation[1].error = "") =>
        /\ evaluation[1].samples = TestSize
        /\ evaluation[1].weights =
             ThisCheckpoint[1].model_state_dict
        /\ Len(evaluation[1].value) = 2
        /\ DOMAIN evaluation[1].value[2] =
             {test_labels[i] : i \in 1..Len(test_labels)}


(***************************************************************************)
(* Properties of run_all.                                                  *)
(***************************************************************************)
\* the position of a model in the order transformer, gru, tcn
Position(name) ==
    IF name = "transformer" THEN 1 ELSE IF name = "gru" THEN 2 ELSE 3

ModelCheckpoint(name) == files[CheckpointFile("MultiModelTrainer", name)]

\* C15: run_all handles transformer, gru, tcn in this order, one at a
\* time: the k-th train_model call starts only when the models before it
\* have been trained and evaluated, a model is evaluated only when its own
\* training has returned, the checkpoint file of a model changes only in
\* an epoch of that model's training, and the test data stay the same.
RunAllSequential ==
    /\ [](harness # "idle" =>
            /\ \A k \in 1..Len(results) : Position(results[k].name) = k
            /\ run >= 1 =>
                 /\ Position(model_name) = run
                 /\ Len(results) \in {run - 1, run}
                 /\ Len(results) = run => pc = "returned"
            /\ \A name \in ModelNames :
                 (ModelCheckpoint(name) # <<>>
                    /\ ModelCheckpoint(name)[1].model_state_dict[1] # 0)
                   => ModelCheckpoint(name)[1].model_state_dict[1]
                        = Position(name))
    /\ [][/\ run' # run =>
               /\ run' = run + 1
               /\ Len(results) = run
               /\ run >= 1 => (pc = "returned" /\ returned # <<>>)
          /\ results' # results =>
               /\ pc = "returned" /\ returned # <<>>
               /\ Len(results) = run - 1
               /\ Len(results') = run
               /\ results'[run].name = model_name
               /\ results'[run].best_val_acc = returned[1]
          /\ \A name \in ModelNames :
               ModelCheckpoint(name)' # ModelCheckpoint(name) =>
                   (pc = "epoch_end" /\ model_name = name)
          /\ test_labels' = test_labels]_vars

\* run_all returned after the three models were trained and evaluated,
\* each with a checkpoint written by its own training
RunAllSequentialWitness ==
    /\ harness = "done"
    /\ Len(results) = 3
    /\ files["all_models_results.json"] = <<results>>
    /\ \A name \in ModelNames :
         /\ ModelCheckpoint(name) # <<>>
         /\ ModelCheckpoint(name)[1].model_state_dict[1] = Position(name)

\* C16: when run_all has ended, by returning or because a call raised, the
\* results hold an entry for each of the three models.
EveryModelHasEntry ==
    harness \in {"done", "raised"} =>
        {results[k].name : k \in 1..Len(results)} = ModelNames

\* C17: the results run_all returns are in descending order of test
\* accuracy.
RankedByTestAccuracy ==
    harness = "done" =>
        \A i, j \in 1..Len(results) :
            i < j => ~Gt(results[j].test_acc, results[i].test_acc)


(***************************************************************************)
(* Properties of cancellation.                                             *)
(***************************************************************************)
\* C19: a stop signal ends a training run only between two batches, and
\* after it the checkpoint file of the run is absent or a complete
\* checkpoint.
CancelLeavesCheckpointIntact ==
    pc \in Interrupted =>
        /\ pc = "interrupted_between_batches"
        /\ \/ ThisCheckpoint = <<>>
           \/ "val_acc" \in DOMAIN ThisCheckpoint[1]


(***************************************************************************)
(* Properties of the history.                                              *)
(***************************************************************************)
HistoryFiles ==
    {"history.json"} \cup {HistoryFile("MultiModelTrainer", n) : n \in ModelNames}

Extends(new, old) ==
    /\ Len(new) >= Len(old)
    /\ SubSeq(new, 1, Len(old)) = old

HistoryLengths ==
    LET n == Len(history.train_loss)
    IN  /\ Len(history.train_acc) = n
        /\ Len(history.val_loss) = n
        /\ Len(history.val_acc) = n
        /\ pc \in Running => n = epoch
        /\ (pc \in Finished \/ (pc = "train_batches" /\ batch_i = 0))
               => n * NumBatches(TrainSize, BatchSize) = model_steps

StoppingEpochRecorded ==
    (pc \in Finished /\ early_stopped) =>
        /\ Len(history.val_acc) = epoch + 1
        /\ Last(history.train_loss) = Frac(train_loss, train_total)
        /\ Last(history.train_acc) = Percent(train_correct, train_total)
        /\ Last(history.val_loss) = Frac(val_loss, val_total)
        /\ Last(history.val_acc) = Percent(val_correct, val_total)

HistoryFileState ==
    /\ pc \in Running \cup {"save_history"}
           => files[HistoryFile(trainer, model_name)] = <<>>
    /\ pc = "returned"
           => files[HistoryFile(trainer, model_name)] = <<history>>

HistoryStep ==
    /\ Extends(history'.train_loss, history.train_loss)
    /\ Extends(history'.train_acc, history.train_acc)
    /\ Extends(history'.val_loss, history.val_loss)
    /\ Extends(history'.val_acc, history.val_acc)
    /\ \A f \in HistoryFiles :
           files'[f] # files[f] =>
               /\ pc = "save_history" /\ pc' = "returned"
               /\ f = HistoryFile(trainer, model_name)
               /\ files'[f] = <<history>>

\* C20: the four history lists always have one length, the number of
\* epochs executed (epochs whose optimizer steps were all applied); the
\* epoch that triggers early stopping has its record in the lists; a step
\* only extends the lists; and the history file of the run is written by
\* one step only, the one that follows the loop and returns, with the
\* complete history, whether the loop ended by the break or by exhaustion.
HistoryBookkeeping ==
    /\ [](HistoryLengths /\ StoppingEpochRecorded /\ HistoryFileState)
    /\ [][HistoryStep]_vars

\* a run of max_epochs 3 stopped by the break after its second epoch, back
\* from train with history.json holding both records
HistoryBookkeepingWitness ==
    /\ pc = "returned"
    /\ early_stopped
    /\ epochs = 3
    /\ Len(history.val_acc) = 2
    /\ history.val_acc[1] # history.val_acc[2]
    /\ files[HistoryFile(trainer, model_name)] = <<history>>


====
